---- MODULE Spec2Model ----
(***************************************************************************)
(* Book-Alchemy: the author-name normaliser (data_models.normalize_name)   *)
(* and the three writing request handlers of app.py (add_author, add_book, *)
(* delete_book) over the authors and books tables of data_models.py.       *)
(*                                                                         *)
(* A string is a sequence of characters; a character is a one-code-point   *)
(* token.  Code points that are not ASCII are written by name.             *)
(***************************************************************************)
EXTENDS Naturals, Sequences, FiniteSets

\* ------------------------------------------------------------ characters

LowerLetters ==
    <<"a","b","c","d","e","f","g","h","i","j","k","l","m",
      "n","o","p","q","r","s","t","u","v","w","x","y","z">>

UpperLetters ==
    <<"A","B","C","D","E","F","G","H","I","J","K","L","M",
      "N","O","P","Q","R","S","T","U","V","W","X","Y","Z">>

\* U+00E9, U+00C9 (precomposed e / E with acute) and U+0301 (combining acute).
EAcuteLower == "e_acute"
EAcuteUpper == "E_ACUTE"
CombAcute   == "comb_acute"
Tab         == "tab"

Range(f) == {f[i] : i \in DOMAIN f}

\* [a-z] of the regular expressions.
IsAZ(c) == c \in Range(LowerLetters)

\* \s of the regular expressions, and what str.strip() removes.
IsSpace(c) == c \in {" ", Tab}

\* \w of the regular expressions (str patterns: Unicode letters, digits, _).
IsWord(c) ==
    c \in Range(LowerLetters) \cup Range(UpperLetters)
          \cup {EAcuteLower, EAcuteUpper, "1", "2", "_"}

\* unicodedata.normalize("NFKD", c) for one character.
NFKD(c) ==
    IF c = EAcuteLower THEN <<"e", CombAcute>>
    ELSE IF c = EAcuteUpper THEN <<"E", CombAcute>>
    ELSE <<c>>

\* unicodedata.combining(c) # 0
IsCombining(c) == c = CombAcute

\* str.lower() for one character.
LowerChar(c) ==
    IF c \in Range(UpperLetters)
    THEN LowerLetters[CHOOSE i \in DOMAIN UpperLetters : UpperLetters[i] = c]
    ELSE IF c = EAcuteUpper THEN EAcuteLower
    ELSE c

\* ------------------------------------------------------- string helpers

RECURSIVE Decompose(_)
Decompose(s) ==
    IF s = <<>> THEN <<>> ELSE NFKD(Head(s)) \o Decompose(Tail(s))

StripCombining(s) == SelectSeq(s, LAMBDA c : ~IsCombining(c))

\* re.sub(r"[.,']", " ", s)
ReplacePunct(s) ==
    [i \in DOMAIN s |-> IF s[i] \in {".", ",", "'"} THEN " " ELSE s[i]]

\* re.sub(r"\s+", " ", s): every maximal run of whitespace becomes one space.
RECURSIVE CollapseWs(_)
CollapseWs(s) ==
    IF s = <<>> THEN <<>>
    ELSE IF IsSpace(Head(s))
         THEN IF Len(s) > 1 /\ IsSpace(s[2])
              THEN CollapseWs(Tail(s))
              ELSE <<" ">> \o CollapseWs(Tail(s))
         ELSE <<Head(s)>> \o CollapseWs(Tail(s))

RECURSIVE LStrip(_)
LStrip(s) ==
    IF s # <<>> /\ IsSpace(Head(s)) THEN LStrip(Tail(s)) ELSE s

RECURSIVE RStrip(_)
RStrip(s) ==
    IF s # <<>> /\ IsSpace(s[Len(s)])
    THEN RStrip(SubSeq(s, 1, Len(s) - 1))
    ELSE s

\* str.strip()
Strip(s) == RStrip(LStrip(s))

\* str.lower()
Lower(s) == [i \in DOMAIN s |-> LowerChar(s[i])]

\* "," in s
HasComma(s) == \E i \in DOMAIN s : s[i] = ","

\* s.split(","): the pieces between the commas, as a sequence of strings.
RECURSIVE SplitComma(_)
SplitComma(s) ==
    IF ~HasComma(s) THEN <<s>>
    ELSE LET i == CHOOSE k \in DOMAIN s :
                      s[k] = "," /\ \A m \in 1..(k - 1) : s[m] # ","
         IN <<SubSeq(s, 1, i - 1)>> \o SplitComma(SubSeq(s, i + 1, Len(s)))

\* The "lastname, firstname" block of normalize_name.
ReorderComma(s) ==
    IF HasComma(s)
    THEN LET parts == [i \in DOMAIN SplitComma(s) |-> Strip(SplitComma(s)[i])]
         IN IF Len(parts) = 2 THEN parts[2] \o <<" ">> \o parts[1] ELSE s
    ELSE s

\* \b between positions i-1 and i of s (i in 1..Len(s)+1).
WordBoundary(s, i) ==
    LET before == i > 1 /\ IsWord(s[i - 1])
        after  == i <= Len(s) /\ IsWord(s[i])
    IN before # after

\* The end of the maximal whitespace run that starts at position i.
RECURSIVE WsEnd(_, _)
WsEnd(s, i) ==
    IF i <= Len(s) /\ IsSpace(s[i]) THEN WsEnd(s, i + 1) ELSE i

\* Whether \b([a-z])\s+([a-z])\b matches at position i; the match then ends
\* at position MergeEnd(s, i).
MergeEnd(s, i) == WsEnd(s, i + 1)

MergeMatches(s, i) ==
    /\ WordBoundary(s, i)
    /\ IsAZ(s[i])
    /\ i + 1 <= Len(s) /\ IsSpace(s[i + 1])
    /\ MergeEnd(s, i) <= Len(s)
    /\ IsAZ(s[MergeEnd(s, i)])
    /\ WordBoundary(s, MergeEnd(s, i) + 1)

\* re.sub(r"\b([a-z])\s+([a-z])\b", r"\1\2", s) from position i on: matches
\* are found left to right and do not overlap.
RECURSIVE MergeFrom(_, _)
MergeFrom(s, i) ==
    IF i > Len(s) THEN <<>>
    ELSE IF MergeMatches(s, i)
         THEN <<s[i], s[MergeEnd(s, i)]>> \o MergeFrom(s, MergeEnd(s, i) + 1)
         ELSE <<s[i]>> \o MergeFrom(s, i + 1)

MergeInitials(s) == MergeFrom(s, 1)

\* re.sub(r"[^a-z\s]", "", s)
KeepLetters(s) == SelectSeq(s, LAMBDA c : IsAZ(c) \/ IsSpace(c))

\* normalize_name up to the initials merge: the string the merge is applied to.
PreMerge(name) ==
    LET n1 == StripCombining(Decompose(name))
        n2 == ReplacePunct(n1)
        n3 == Lower(Strip(CollapseWs(n2)))
    IN ReorderComma(n3)

\* data_models.normalize_name
normalize_name(name) ==
    IF name = <<>> THEN <<>>
    ELSE Strip(CollapseWs(KeepLetters(MergeInitials(PreMerge(name)))))

\* ------------------------------------------------ the normaliser's inputs

\* The longest typed input.
MaxLen == 4

\* The characters an input is typed from.
Alphabet == {"a", "b", "J", EAcuteLower, "1", "-", " ", ".", ",", "'"}

\* Inputs given whole: names of the docstring and of the seed data, their
\* other spellings, and short strings of initials, digits and hyphens.
Examples ==
    { <<"R","o","w","l","i","n","g",","," ","J","."," ","K",".">>,
      <<"J",".","K","."," ","R","o","w","l","i","n","g">>,
      <<"J",".","R",".","R","."," ","T","o","l","k","i","e","n">>,
      <<"J","R","R"," ","T","o","l","k","i","e","n">>,
      <<"O","'","B","r","i","e","n">>,
      <<"a"," ","b"," ","c">>,
      <<"a"," ","b"," ","c"," ","d">>,
      <<"a","-","b"," ","c">>,
      <<"a","1"," ","b">> }

\* str.upper() for one character (used to vary the case of an input).
UpperChar(c) ==
    IF c \in Range(LowerLetters)
    THEN UpperLetters[CHOOSE i \in DOMAIN LowerLetters : LowerLetters[i] = c]
    ELSE IF c = EAcuteLower THEN EAcuteUpper
    ELSE c

SwapCase(c) == IF LowerChar(c) # c THEN LowerChar(c) ELSE UpperChar(c)

\* The letter without its diacritical mark.
BaseLetter(c) ==
    IF c = EAcuteLower THEN "e" ELSE IF c = EAcuteUpper THEN "E" ELSE c

ReplaceAt(s, i, c) == [k \in DOMAIN s |-> IF k = i THEN c ELSE s[k]]

RemoveAt(s, i) == SubSeq(s, 1, i - 1) \o SubSeq(s, i + 1, Len(s))

\* The ways of typing the same name differently: s with the letter at i in
\* the other case, without its diacritical mark, with the punctuation
\* character at i left out, or with the space after a dot left out.
Variants(s) ==
    {[kind |-> "case", b |-> ReplaceAt(s, i, SwapCase(s[i]))] :
        i \in {k \in DOMAIN s : SwapCase(s[k]) # s[k]}}
    \cup {[kind |-> "diacritic", b |-> ReplaceAt(s, i, BaseLetter(s[i]))] :
        i \in {k \in DOMAIN s : BaseLetter(s[k]) # s[k]}}
    \cup {[kind |-> "punctuation", b |-> RemoveAt(s, i)] :
        i \in {k \in DOMAIN s : s[k] \in {".", ",", "'"}}}
    \cup {[kind |-> "initials", b |-> RemoveAt(s, i)] :
        i \in {k \in DOMAIN s : k > 1 /\ s[k] = " " /\ s[k - 1] = "."}}

\* "Last, First" typed as "First Last".
FirstLast(s) ==
    LET parts == SplitComma(s)
    IN Strip(parts[2]) \o <<" ">> \o Strip(parts[1])

IsLastFirst(s) ==
    /\ Len(SplitComma(s)) = 2
    /\ Strip(SplitComma(s)[1]) # <<>>
    /\ Strip(SplitComma(s)[2]) # <<>>

\* ------------------------------------------------------------ the tables

\* A nullable value: NULL, or the value v.
Null == <<>>
Some(v) == <<v>>

\* The Author objects of seed_data (name only: the dates play no part here).
SeedAuthors ==
    << <<"G","e","o","r","g","e"," ","O","r","w","e","l","l">>,
       <<"J",".","K","."," ","R","o","w","l","i","n","g">>,
       <<"J",".","R",".","R","."," ","T","o","l","k","i","e","n">>,
       <<"H","a","r","p","e","r"," ","L","e","e">>,
       <<"F","."," ","S","c","o","t","t"," ","F","i","t","z","g","e","r","a","l","d">> >>

\* The Book objects of seed_data.
SeedBooks ==
    << [isbn |-> "9780451524935", title |-> "1984",
        publication_year |-> 1949, author_id |-> 1],
       [isbn |-> "9780747532743",
        title |-> "Harry Potter and the Philosopher's Stone",
        publication_year |-> 1997, author_id |-> 2],
       [isbn |-> "9780618260300", title |-> "The Hobbit",
        publication_year |-> 1937, author_id |-> 3],
       [isbn |-> "9780061120084", title |-> "To Kill a Mockingbird",
        publication_year |-> 1960, author_id |-> 4],
       [isbn |-> "9780743273565", title |-> "The Great Gatsby",
        publication_year |-> 1925, author_id |-> 5] >>

\* The largest book id the model lets add_book assign.
MaxBookId == 7

\* The worker threads serving add_author requests.
Workers == {"w1", "w2"}

\* What the add_author form is submitted with.
NameInputs ==
    { <<>>,
      <<" "," ">>,
      <<"J","K"," ","R","o","w","l","i","n","g">>,
      <<" ","J","a","n","e"," ","A","u","s","t","e","n">>,
      <<"j","a","n","e"," ","a","u","s","t","e","n">> }

\* What the add_book form is submitted with.
IsbnInputs == {Some("9780451524935"), Some("9780452284241"), Null}
TitleInputs == {Some("Animal Farm"), Null}
YearInputs == {Some(1945)}
AuthorIdInputs == {Some(1), Some(6), Null}

VARIABLES
    raw,      \* the name given to normalize_name
    res,      \* what was computed from it last
    authors,  \* the rows of table authors
    books,    \* the rows of table books
    req       \* per worker: the add_author request it serves or served last

nvars == <<raw, res>>
dbvars == <<authors, books, req>>
vars == <<raw, res, authors, books, req>>

MaxOf(S) == CHOOSE m \in S : \A k \in S : k <= m

\* The id an INTEGER PRIMARY KEY column gives the next row of tbl.
NextId(tbl) == IF tbl = {} THEN 1 ELSE MaxOf({r.id : r \in tbl}) + 1

\* The new Author with the raw name stored as its key.
NewAuthorRawKey(name) == [name |-> name, normalized_name |-> Some(name)]

\* Author(name=name, birth_date=..., date_of_death=...) of add_author:
\* normalized_name is not among the arguments.
NewAuthor(name) == [name |-> name, normalized_name |-> Null]

\* Table authors with normalized_name declared like the optional columns:
\* neither NOT NULL nor UNIQUE.
CanInsertAuthorNameOnly(row, tbl) ==
    \A a \in tbl : a.name # row.name

\* The constraints of table authors on a new row.
CanInsertAuthor(row, tbl) ==
    /\ row.normalized_name # Null
    /\ \A a \in tbl : a.name # row.name
    /\ \A a \in tbl : a.normalized_name # row.normalized_name

\* The constraints of table books on a new row.  SQLite, as the application
\* opens it, does not enforce the foreign key of author_id.
CanInsertBook(row, tbl) ==
    /\ row.isbn # Null
    /\ row.title # Null
    /\ row.author_id # Null
    /\ \A b \in tbl : b.isbn # row.isbn

\* book.author
AuthorOf(book) == {a \in authors : Some(a.id) = book.author_id}

\* author.books, when the rows of table books are tbl
BooksOf(author, tbl) == {b \in tbl : b.author_id = Some(author.id)}

\* The author deleted without a look at author.books.
AuthorsAfterDeleteAlways(owner, remaining) == authors \ {owner}

\* delete_book, after the book's deletion is committed: the authors left,
\* when owner is book.author and remaining the books left.
AuthorsAfterDelete(owner, remaining) ==
    IF BooksOf(owner, remaining) = {} THEN authors \ {owner} ELSE authors

NoResult == [op |-> "none"]

\* The tables as seeded: every author with the canonical form of its name in
\* normalized_name, every book with its author.
SeededAuthors ==
    {[id |-> i, name |-> SeedAuthors[i],
      normalized_name |-> Some(normalize_name(SeedAuthors[i]))] :
     i \in DOMAIN SeedAuthors}

SeededBooks ==
    {[id |-> i, isbn |-> Some(SeedBooks[i].isbn),
      title |-> Some(SeedBooks[i].title),
      publication_year |-> Some(SeedBooks[i].publication_year),
      author_id |-> Some(SeedBooks[i].author_id)] :
     i \in DOMAIN SeedBooks}

NoRequest == [pc |-> "idle", name |-> <<>>, outcome |-> "none"]

\* The handlers start on the seeded database, no request being served.  (No
\* handler creates the tables: the application runs on a database that is
\* already there.)
Init ==
    /\ authors = SeededAuthors
    /\ books = SeededBooks
    /\ req = [w \in Workers |-> NoRequest]
    /\ raw = <<>>
    /\ res = NoResult

\* normalize_name starts on the empty input or on one of the examples; it
\* reads and writes no table.
NormInit ==
    /\ raw \in {<<>>} \cup Examples
    /\ res = NoResult
    /\ authors = {}
    /\ books = {}
    /\ req = [w \in Workers |-> NoRequest]

\* One more character of the input.
TypeChar(c) ==
    /\ Len(raw) < MaxLen
    /\ raw' = Append(raw, c)
    /\ res' = NoResult
    /\ UNCHANGED dbvars

\* key = normalize_name(raw)
Normalize ==
    /\ res' = [op |-> "normalize", key |-> normalize_name(raw)]
    /\ UNCHANGED <<raw, dbvars>>

\* key = normalize_name(raw); again = normalize_name(key)
Renormalize ==
    /\ res' = [op |-> "renormalize",
               key |-> normalize_name(raw),
               again |-> normalize_name(normalize_name(raw))]
    /\ UNCHANGED <<raw, dbvars>>

\* normalize_name of raw and of one of its variants.
NormalizeVariant ==
    /\ \E v \in Variants(raw) :
          res' = [op |-> "variant", kind |-> v.kind, b |-> v.b,
                  key |-> normalize_name(raw), key_b |-> normalize_name(v.b)]
    /\ UNCHANGED <<raw, dbvars>>

\* normalize_name of "Last, First" and of "First Last".
NormalizeCommaForm ==
    /\ IsLastFirst(raw)
    /\ res' = [op |-> "comma", b |-> FirstLast(raw),
               key |-> normalize_name(raw),
               key_b |-> normalize_name(FirstLast(raw))]
    /\ UNCHANGED <<raw, dbvars>>

\* The initials merge alone, on the string normalize_name applies it to.
Merge ==
    /\ raw # <<>>
    /\ res' = [op |-> "merge", pre |-> PreMerge(raw),
               merged |-> MergeInitials(PreMerge(raw))]
    /\ UNCHANGED <<raw, dbvars>>

\* ---------------------------------------------------------- the handlers

\* add_author (POST) up to db.session.add: the validation of the form and
\* the new Author in the worker's session.
AddAuthorBegin(w, name_in, dates_ok) ==
    /\ req[w].pc = "idle"
    /\ LET name == Strip(name_in)
       IN req' = [req EXCEPT ![w] =
                    IF name = <<>>
                    THEN [pc |-> "idle", name |-> name,
                          outcome |-> "name_required"]
                    ELSE IF ~dates_ok
                    THEN [pc |-> "idle", name |-> name,
                          outcome |-> "invalid_date"]
                    ELSE [pc |-> "commit", name |-> name,
                          outcome |-> "none"]]
    /\ UNCHANGED <<authors, books, nvars>>

\* add_author from db.session.commit on: the row is inserted, or the commit
\* raises IntegrityError, which nothing in the handler catches.
AddAuthorCommit(w) ==
    /\ req[w].pc = "commit"
    /\ LET row == NewAuthor(req[w].name)
       IN IF CanInsertAuthor(row, authors)
          THEN /\ authors' = authors \cup
                     {[id |-> NextId(authors), name |-> row.name,
                       normalized_name |-> row.normalized_name]}
               /\ req' = [req EXCEPT ![w].pc = "idle", ![w].outcome = "added"]
          ELSE /\ authors' = authors
               /\ req' = [req EXCEPT ![w].pc = "idle",
                                     ![w].outcome = "integrity_error"]
    /\ UNCHANGED <<books, nvars>>

\* add_book (POST)
AddBook(isbn, title, year, author_id) ==
    /\ NextId(books) <= MaxBookId
    /\ LET row == [isbn |-> isbn, title |-> title,
                   publication_year |-> year, author_id |-> author_id]
       IN books' = IF CanInsertBook(row, books)
                   THEN books \cup
                        {[id |-> NextId(books), isbn |-> isbn, title |-> title,
                          publication_year |-> year, author_id |-> author_id]}
                   ELSE books
    /\ UNCHANGED <<authors, req, nvars>>

\* delete_book
DeleteBook(book_id) ==
    /\ IF \E b \in books : b.id = book_id
       THEN LET book == CHOOSE b \in books : b.id = book_id
                remaining == books \ {book}
            IN /\ books' = remaining
               /\ authors' = IF AuthorOf(book) = {}
                             THEN authors
                             ELSE AuthorsAfterDelete(
                                      CHOOSE a \in AuthorOf(book) : TRUE,
                                      remaining)
       ELSE UNCHANGED <<authors, books>>
    /\ UNCHANGED <<req, nvars>>

NormNext ==
    \/ \E c \in Alphabet : TypeChar(c)
    \/ Normalize
    \/ Renormalize
    \/ NormalizeVariant
    \/ NormalizeCommaForm
    \/ Merge

Next ==
    \/ \E w \in Workers, n \in NameInputs, d \in BOOLEAN :
          AddAuthorBegin(w, n, d)
    \/ \E w \in Workers : AddAuthorCommit(w)
    \/ \E i \in IsbnInputs, t \in TitleInputs, y \in YearInputs,
          a \in AuthorIdInputs : AddBook(i, t, y, a)
    \/ \E id \in 1..MaxBookId : DeleteBook(id)

\* The handlers over the seeded database.
Spec == Init /\ [][Next]_vars

\* normalize_name over its inputs.
SpecNorm == NormInit /\ [][NormNext]_vars
\* ------------------------------------------------------------- the claims

KeyOf(name) == Some(normalize_name(name))

\* C1: add-author, given a non-empty name, inserts the author with the raw
\* name and the key normalize(name) if and only if no stored author has that
\* key; when one has, the request ends as a duplicate and the stored authors
\* are unchanged.
C1_AddAuthorInsertsUnlessDuplicate ==
    [][\A w \in Workers :
         (req[w].pc = "commit" /\ req'[w].pc = "idle") =>
            IF \E a \in authors : a.normalized_name = KeyOf(req[w].name)
            THEN /\ authors' = authors
                 /\ req'[w].outcome = "duplicate"
            ELSE /\ req'[w].outcome = "added"
                 /\ authors \subseteq authors'
                 /\ Cardinality(authors' \ authors) = 1
                 /\ \A a \in authors' \ authors :
                       /\ a.name = req[w].name
                       /\ a.normalized_name = KeyOf(req[w].name)]_vars

C4_RaceEndsAsDuplicate ==
    [][\A w, v \in Workers :
         (/\ w # v
          /\ req[w].pc = "commit"
          /\ req'[w].pc = "idle"
          /\ normalize_name(req[w].name) = normalize_name(req[v].name))
         => /\ (/\ req[v].pc = "commit"
                /\ \A a \in authors : a.normalized_name # KeyOf(req[w].name))
               => /\ req'[w].outcome = "added"
                  /\ Cardinality({a \in authors' :
                        a.normalized_name = KeyOf(req[w].name)}) = 1
            /\ (/\ req[v].pc = "idle"
                /\ req[v].outcome = "added"
                /\ \E a \in authors : a.normalized_name = KeyOf(req[w].name))
               => /\ req'[w].outcome = "duplicate"
                  /\ authors' = authors]_vars

\* C8: delete-book(id) on a stored book removes that book and nothing else
\* from the books; the book's author is removed if and only if no other book
\* of that author is left, and all other authors stay.
C8_DeleteBook ==
    [][\A id \in 1..MaxBookId :
         \A b \in books :
            (b.id = id /\ DeleteBook(id)) =>
               /\ books' = books \ {b}
               /\ authors' =
                     IF \E o \in books \ {b} : o.author_id = b.author_id
                     THEN authors
                     ELSE {a \in authors : Some(a.id) # b.author_id}]_vars

\* Author 1 has lost its seeded book and is still stored, with another book;
\* author 2 went with its only book.
C8_Witness ==
    /\ \A b \in books : b.id # 1 /\ b.id # 2
    /\ \E a \in authors : a.id = 1
    /\ \E b \in books : b.author_id = Some(1)
    /\ \A a \in authors : a.id # 2

\* C9: every stored book references a stored author.
C9_BookHasStoredAuthor ==
    \A b \in books : \E a \in authors : Some(a.id) = b.author_id

\* C5: normalize("Last, First") = normalize("First Last") for every input
\* with one comma, and normalize("Rowling, J. K.") = "jk rowling".
C5_CommaFormReordered ==
    /\ res.op = "comma" => res.key = res.key_b
    /\ (/\ res.op = "normalize"
        /\ raw = <<"R","o","w","l","i","n","g",","," ","J","."," ","K",".">>)
       => res.key = <<"j","k"," ","r","o","w","l","i","n","g">>

\* C6: two names that differ only in letter case, in a diacritical mark, in
\* the presence of a punctuation character or in the separation of initials
\* normalize to the same key.
C6_VariantsShareKey ==
    res.op = "variant" => res.key = res.key_b

\* C7: normalize(normalize(x)) = normalize(x).
C7_Idempotent ==
    res.op = "renormalize" => res.again = res.key

\* The words of s between its spaces.
RECURSIVE Tokens(_)
Tokens(s) ==
    IF \A i \in DOMAIN s : s[i] # " " THEN <<s>>
    ELSE LET i == CHOOSE k \in DOMAIN s :
                      s[k] = " " /\ \A m \in 1..(k - 1) : s[m] # " "
         IN <<SubSeq(s, 1, i - 1)>> \o Tokens(SubSeq(s, i + 1, Len(s)))

IsInitial(t) == Len(t) = 1 /\ IsAZ(t[1])

\* One left-to-right pass over the tokens that joins two adjacent
\* single-letter tokens and goes on after the pair.
RECURSIVE MergeTokens(_)
MergeTokens(ts) ==
    IF Len(ts) < 2 THEN ts
    ELSE IF IsInitial(ts[1]) /\ IsInitial(ts[2])
         THEN <<ts[1] \o ts[2]>> \o MergeTokens(SubSeq(ts, 3, Len(ts)))
         ELSE <<ts[1]>> \o MergeTokens(Tail(ts))

RECURSIVE JoinTokens(_)
JoinTokens(ts) ==
    IF ts = <<>> THEN <<>>
    ELSE IF Len(ts) = 1 THEN ts[1]
    ELSE ts[1] \o <<" ">> \o JoinTokens(Tail(ts))

\* C10: the initials merge is one left-to-right, non-overlapping pass over
\* the whitespace-delimited tokens that joins two adjacent tokens only when
\* each is a single letter; a token of more than one character is never
\* joined to its neighbour.
C10_MergeIsTokenPass ==
    res.op = "merge" => res.merged = JoinTokens(MergeTokens(Tokens(res.pre)))
====
